---------------------------- MODULE Spec2Model ----------------------------
(***************************************************************************)
(* A model of tjenare's request mediation engine (package mediator):       *)
(*   - Mediator.getConfigForClient, the TLS server-name callback with its  *)
(*     per-domain certificate cache (DomainConfig.CertTime / CertConfig);  *)
(*   - Mediator.ServeHTTP with parseRequest, handoff, createReverseProxy   *)
(*     and serveFile.                                                      *)
(* The handlers run concurrently, one goroutine per connection or request, *)
(* and take no locks: every access to a shared cache field is a step of    *)
(* its own, so that the interleavings of the code are the behaviours of    *)
(* the model.                                                              *)
(***************************************************************************)
EXTENDS Integers, Sequences, FiniteSets, TLC

(***************************************************************************)
(* Bounds of the model.                                                    *)
(***************************************************************************)
\* modification times of a certificate file range over 1..MaxTime
MaxTime == 3
\* a certificate file is replaced at most MaxVer - 1 times
MaxVer == 3
\* at most MaxLoads tls.Config objects are built
MaxLoads == 3
\* at most MaxObjects url.URL and ReverseProxy objects are built
MaxObjects == 4
\* a request path has at most MaxSegs segments after its first slash
MaxSegs == 2

(***************************************************************************)
(* Strings.  A string is kept split: a name (a host, a domain, a path      *)
(* segment) is the sequence of the pieces between its dots, so that        *)
(* "foo.example.com" is <<"foo", "example", "com">>, "foo." is             *)
(* <<"foo", "">>, "index.html" is <<"index", "html">>, ".." is             *)
(* <<"", "", "">> and the empty string is <<"">>.  A path is the sequence  *)
(* of the names between its slashes: "/a/" is <<"", "a", "">> split once,  *)
(* each piece then split at its dots.  A Host header is the sequence of    *)
(* the names between its colons.                                           *)
(***************************************************************************)
Nil == "nil"
NoErr == "ok"

\* the strings "", ".", ".." and "index.html" as names
EmptyName == <<"">>
Dot == <<"", "">>
DotDot == <<"", "", "">>
IndexHtml == <<"index", "html">>

Last(s, n) == SubSeq(s, Len(s) - n + 1, Len(s))
Front(s) == SubSeq(s, 1, Len(s) - 1)

\* strings.HasPrefix(name, "."), strings.HasSuffix(name, ".") and
\* strings.Contains(name, ".."): the tests of EffectiveTLDPlusOne
HasEmptyLabel(name) ==
    /\ Len(name) >= 2
    /\ \E i \in 1..Len(name) : name[i] = ""

\* the rules of the public suffix list the model carries
PublicSuffixRules == { <<"com">>, <<"net">>, <<"uk">>, <<"co", "uk">> }

\* publicsuffix.PublicSuffix: the longest rule that is a suffix of the
\* domain, and its last label (the implicit "*" rule) when none matches;
\* the number of labels of the suffix
PublicSuffixLen(name) ==
    LET matching == { n \in 1..Len(name) : Last(name, n) \in PublicSuffixRules }
    IN  IF matching = {} THEN 1
        ELSE CHOOSE n \in matching : \A m \in matching : m <= n

\* publicsuffix.EffectiveTLDPlusOne: [err, domain]
EffectiveTLDPlusOne(name) ==
    IF HasEmptyLabel(name)
    THEN [err |-> "empty label", domain |-> EmptyName]
    ELSE IF name = EmptyName \/ Len(name) <= PublicSuffixLen(name)
    THEN [err |-> "cannot derive eTLD+1", domain |-> EmptyName]
    ELSE [err |-> NoErr, domain |-> Last(name, PublicSuffixLen(name) + 1)]

\* strings.TrimSuffix(name, suffix).  The pieces are atoms: a suffix ends
\* a name when its pieces are the name's last ones, its first piece being
\* either a whole piece of the name or empty (the suffix then starts at a
\* dot, or is the empty string)
TrimSuffix(name, suffix) ==
    LET n == Len(name)
        m == Len(suffix)
    IN  IF m <= n /\ Last(name, m - 1) = Tail(suffix)
              /\ suffix[1] \in {"", name[n - m + 1]}
        THEN SubSeq(name, 1, n - m) \o
             << IF suffix[1] = "" THEN name[n - m + 1] ELSE "" >>
        ELSE name

\* strings.Split(r.Host, ":")[0], a Host kept as the names between colons
HostName(host) == host[1]

\* parseRequest without its second TrimSuffix
parseRequestKeepDot(rHost) ==
    LET host == HostName(rHost)
        etld == EffectiveTLDPlusOne(host)
    IN  IF etld.err # NoErr
        THEN [err |-> "could not parse request into pieces",
              domain |-> EmptyName, subdomain |-> EmptyName]
        ELSE [err |-> NoErr, domain |-> etld.domain,
              subdomain |-> TrimSuffix(host, etld.domain)]

\* parseRequest with the error of EffectiveTLDPlusOne dropped, as
\* getConfigForClient drops it
parseRequestLogOnly(rHost) ==
    LET host == HostName(rHost)
        etld == EffectiveTLDPlusOne(host)
    IN  [err |-> NoErr, domain |-> etld.domain,
         subdomain |-> TrimSuffix(TrimSuffix(host, etld.domain), Dot)]

\* Mediator.parseRequest: [err, domain, subdomain]
parseRequest(rHost) ==
    LET host == HostName(rHost)
        etld == EffectiveTLDPlusOne(host)
    IN  IF etld.err # NoErr
        THEN [err |-> "could not parse request into pieces",
              domain |-> EmptyName, subdomain |-> EmptyName]
        ELSE [err |-> NoErr, domain |-> etld.domain,
              subdomain |-> TrimSuffix(TrimSuffix(host, etld.domain), Dot)]

(***************************************************************************)
(* Paths.  "" is <<EmptyName>>, "/" is <<EmptyName, EmptyName>>, "/a/" is  *)
(* <<EmptyName, <<"a">>, EmptyName>>; joining two strings with a slash is  *)
(* the concatenation of their sequences.                                   *)
(***************************************************************************)
EmptyPath == <<EmptyName>>
Root == <<EmptyName, EmptyName>>

\* strings.HasSuffix(path, "/")
EndsInSlash(path) == Len(path) >= 2 /\ path[Len(path)] = EmptyName

\* strings.HasSuffix(path, "/index.html")
EndsInSlashIndex(path) == Len(path) >= 2 /\ path[Len(path)] = IndexHtml

IsRooted(path) == Len(path) >= 2 /\ path[1] = EmptyName

\* the elements Clean keeps of segs, pushed on kept: "" and "." dropped,
\* ".." taking back the element before it (at the root: dropped)
RECURSIVE CleanSegs(_, _, _)
CleanSegs(segs, kept, rooted) ==
    IF segs = <<>> THEN kept
    ELSE LET seg == Head(segs)
             rest == Tail(segs)
         IN  IF seg = EmptyName \/ seg = Dot THEN CleanSegs(rest, kept, rooted)
             ELSE IF seg # DotDot THEN CleanSegs(rest, Append(kept, seg), rooted)
             ELSE IF kept # <<>> /\ kept[Len(kept)] # DotDot
                  THEN CleanSegs(rest, Front(kept), rooted)
             ELSE IF rooted THEN CleanSegs(rest, kept, rooted)
             ELSE CleanSegs(rest, Append(kept, seg), rooted)

\* filepath.Clean
Clean(path) ==
    LET kept == CleanSegs(path, <<>>, IsRooted(path))
    IN  IF IsRooted(path)
        THEN (IF kept = <<>> THEN Root ELSE <<EmptyName>> \o kept)
        ELSE (IF kept = <<>> THEN <<Dot>> ELSE kept)

\* filepath.Join of four elements: the empty ones are ignored, the others
\* joined with slashes, the result cleaned ("" when all are empty)
Join(a, b, c, d) ==
    LET part(x) == IF x = EmptyPath THEN <<>> ELSE x
        joined == part(a) \o part(b) \o part(c) \o part(d)
    IN  IF joined = <<>> THEN EmptyPath ELSE Clean(joined)

\* filepath.Dir: the path up to its last slash, cleaned
Dir(path) == IF Len(path) = 1 THEN <<Dot>> ELSE Clean(Front(path) \o <<EmptyName>>)

\* path + "/index.html"
SlashIndex(path) == path \o <<IndexHtml>>

\* a path ending in a slash left as it is
NoIndex(path) == path

\* mediator.go:186-188: path += "index.html" for a path ending in a slash
WithIndex(path) ==
    IF EndsInSlash(path) THEN Front(path) \o <<IndexHtml>> ELSE path

(***************************************************************************)
(* The configuration (config.ServerConfig), read-only after Load.          *)
(***************************************************************************)
Example == <<"example", "com">>
Other == <<"other", "net">>

\* the keys of ServerConfig.Domains
Domains == { Example, Other }

\* a lookup that takes the first domain for one not configured
DomainOrDefault(domain) ==
    [ok |-> TRUE, key |-> IF domain \in Domains THEN domain ELSE Example]

\* domconfig, ok := med.ServerConfig.Domains[domain]; a DomainConfig is
\* named by its key, the empty name when there is none
DomainFor(domain) ==
    [ok |-> domain \in Domains, key |-> IF domain \in Domains THEN domain ELSE EmptyName]

GoodTarget == "http://127.0.0.1:9000"
BadTarget == "http://[bad"

\* DomainConfig of each domain: the fields set from the configuration file
DomainConfig ==
    (Example :> [BasePath |-> <<EmptyName, <<"srv">>>>,
                 Default |-> <<"www">>,
                 Subdir |-> << <<"public_html">> >>,
                 IndexFallback |-> TRUE,
                 Backends |-> (<<"api">> :> GoodTarget) @@ (<<"bad">> :> BadTarget)])
    @@
    (Other :> [BasePath |-> <<EmptyName, <<"srv">>>>,
               Default |-> <<"app">>,
               Subdir |-> EmptyPath,
               IndexFallback |-> FALSE,
               Backends |-> (<<"app">> :> GoodTarget)])

\* the BackendConfig records, each named by its domain and subdomain
BackendKeys ==
    UNION { { <<d, sub>> : sub \in DOMAIN DomainConfig[d].Backends } : d \in Domains }

\* BackendConfig.Target
Target(k) == DomainConfig[k[1]].Backends[k[2]]

\* a parse that accepts every target
UrlParseAny(target) == [err |-> NoErr, url |-> target]

\* url.Parse(backend.Target): [err, url], a parsed URL named by its text
UrlParse(target) ==
    IF target = BadTarget THEN [err |-> "parsing backend target", url |-> Nil]
    ELSE [err |-> NoErr, url |-> target]


(***************************************************************************)
(* State.                                                                  *)
(***************************************************************************)
VARIABLES
    fileTime,    \* per domain: the modification time of CertFile on disk
    fileVer,     \* per domain: which contents CertFile/KeyFile now hold
    rolledBack,  \* history: per domain, CertFile once got an earlier mtime
    CertTime,    \* DomainConfig.CertTime, as its two words <<wall, ext>>
    CertConfig,  \* DomainConfig.CertConfig: NilConfig or a tls.Config object
    loads,       \* number of tls.Config objects built so far
    hs,          \* per handshake goroutine: its place in getConfigForClient
    hist,        \* history: per domain, what the previous handshake saw
    BackendURL,  \* BackendConfig.URL per backend: 0 (nil) or a url.URL object
    ReverseProxy,\* BackendConfig.ReverseProxy per backend: 0 (nil) or a proxy object
    heap,        \* number of url.URL and ReverseProxy objects stored so far
    rq,          \* per request goroutine: its place in ServeHTTP
    arg,         \* the Host header parseRequest is applied to
    res          \* and what parseRequest returned for it

tlsVars == <<fileTime, fileVer, rolledBack, CertTime, CertConfig, loads, hs, hist>>
httpVars == <<BackendURL, ReverseProxy, heap, rq>>
funVars == <<arg, res>>
vars == <<tlsVars, httpVars, funVars>>

(***************************************************************************)
(* time.Time.  An instant is a number, 0 the zero Time of an unset         *)
(* CertTime.  A time.Time is several words, and the goroutines write and   *)
(* read CertTime without synchronisation, so a store of it is two steps    *)
(* and CertTime is kept as <<wall, ext>>, each word named by the instant   *)
(* it was copied from: <<t, t>> is the instant t, <<a, b>> with a # b is   *)
(* a torn value (nanoseconds of a, seconds of b).                          *)
(***************************************************************************)
Instant(t) == <<t, t>>

\* Before as a test for "not after": an unchanged file then counts as stale
BeforeOrEqual(t, m) ==
    IF t[1] = t[2] THEN { t[1] <= m } ELSE BOOLEAN

\* a comparison that never finds the stored time older
NeverBefore(t, m) == { FALSE }

\* the results CertTime.Before(m) can have, m the ModTime of a stat
Before(t, m) ==
    IF t[1] = t[2] THEN { t[1] < m }
    ELSE IF t[2] = 0 THEN { TRUE }          \* seconds of the zero Time
    ELSE IF t[2] > m /\ t[1] = m THEN { FALSE }
    ELSE BOOLEAN

\* a nil *tls.Config
NilConfig == [id |-> 0, Certificates |-> <<>>, NextProtos |-> <<>>]

\* the tls.Config built at mediator.go:150 from the pair loaded from
\* contents ver; id tells the objects apart
NewConfig(id, ver) ==
    [id |-> id, Certificates |-> <<ver>>, NextProtos |-> <<"h2", "http/1.1">>]

\* a goroutine not in getConfigForClient; nload counts the calls of
\* tls.LoadX509KeyPair the present call has made, sni is hello.ServerName
\* and stored the CertTime the comparison at line 138 read (both kept
\* where the calls are told apart by them)
IdleHandshake ==
    [pc |-> "idle", sni |-> EmptyName, looked |-> FALSE,
     domain |-> EmptyName, info |-> 0,
     stored |-> Instant(0), half |-> 0,
     cert |-> 0, nload |-> 0, cfg |-> NilConfig, err |-> NoErr]

\* the tls.Config objects built so far, and those about to be
Built == loads + Cardinality({ p \in DOMAIN hs : hs[p].pc = "store" })

\* a return that hands out the cached config beside whatever error
ReturnCached(h, cfg, err) ==
    [h EXCEPT !.pc = "done", !.err = err,
              !.cfg = IF h.domain \in Domains THEN CertConfig[h.domain] ELSE cfg]

\* a return statement of getConfigForClient
ReturnFrom(h, cfg, err) == [h EXCEPT !.pc = "done", !.cfg = cfg, !.err = err]

(***************************************************************************)
(* The certificate files: certbot (or anyone) replaces them.               *)
(***************************************************************************)
CertRenew(d) ==
    /\ fileVer[d] < MaxVer
    /\ \E t \in (fileTime[d] + 1)..MaxTime : fileTime' = [fileTime EXCEPT ![d] = t]
    /\ fileVer' = [fileVer EXCEPT ![d] = @ + 1]
    /\ UNCHANGED <<rolledBack, CertTime, CertConfig, loads, hs, hist, httpVars, funVars>>

\* the file is replaced by one with an earlier modification time
CertBackdate(d) ==
    /\ fileVer[d] < MaxVer
    /\ \E t \in 1..(fileTime[d] - 1) : fileTime' = [fileTime EXCEPT ![d] = t]
    /\ fileVer' = [fileVer EXCEPT ![d] = @ + 1]
    /\ rolledBack' = [rolledBack EXCEPT ![d] = TRUE]
    /\ UNCHANGED <<CertTime, CertConfig, loads, hs, hist, httpVars, funVars>>

(***************************************************************************)
(* getConfigForClient, mediator.go:118-158.                                *)
(***************************************************************************)
\* the lookup without the ServerName test before it
LookupDomainUntested(sni) ==
    LET domconf == DomainFor(EffectiveTLDPlusOne(sni).domain)
    IN  IF ~domconf.ok
        THEN [err |-> "no such domain", domain |-> domconf.key, looked |-> TRUE]
        ELSE [err |-> NoErr, domain |-> domconf.key, looked |-> TRUE]

\* 119-131: the ServerName test, EffectiveTLDPlusOne (whose error is only
\* logged: domain is then ""), and the lookup in ServerConfig.Domains;
\* looked tells that line 127 was reached
LookupDomain(sni) ==
    IF sni = EmptyName
    THEN [err |-> "no ServerName", domain |-> EmptyName, looked |-> FALSE]
    ELSE LET domconf == DomainFor(EffectiveTLDPlusOne(sni).domain)
         IN  IF ~domconf.ok
             THEN [err |-> "no such domain", domain |-> domconf.key, looked |-> TRUE]
             ELSE [err |-> NoErr, domain |-> domconf.key, looked |-> TRUE]

\* the history of C1 takes in the call p has finished, as p starts another
Commit(h, track) ==
    IF track /\ h.pc = "done" /\ h.domain \in Domains
    THEN [hist EXCEPT ![h.domain] =
            [info |-> IF h.info # 0 THEN h.info ELSE @.info, cfg |-> h.cfg,
             err |-> h.err]]
    ELSE hist

Hello(p, names, track) ==
    /\ hs[p].pc \in {"idle", "done"}
    /\ \E sni \in names :
         LET r == LookupDomain(sni)
             h == [IdleHandshake EXCEPT !.domain = r.domain, !.looked = r.looked,
                                        !.sni = IF track THEN sni ELSE EmptyName]
         IN  hs' = [hs EXCEPT ![p] =
                      IF r.err # NoErr THEN ReturnFrom(h, NilConfig, r.err)
                      ELSE [h EXCEPT !.pc = "stat"]]
    /\ hist' = Commit(hs[p], track)
    /\ UNCHANGED <<fileTime, fileVer, rolledBack, CertTime, CertConfig, loads, httpVars, funVars>>

\* 133-136: os.Stat(domconf.CertFile)
Stat(p) ==
    /\ hs[p].pc = "stat"
    /\ \/ hs' = [hs EXCEPT ![p] = ReturnFrom(@, NilConfig, "stat certfile")]
       \/ hs' = [hs EXCEPT ![p].pc = "check", ![p].info = fileTime[hs[p].domain]]
    /\ UNCHANGED <<fileTime, fileVer, rolledBack, CertTime, CertConfig, loads, hist, httpVars, funVars>>

\* 138: domconf.CertTime.Before(info.ModTime())
Check(p, track) ==
    /\ hs[p].pc = "check"
    /\ \E b \in Before(CertTime[hs[p].domain], hs[p].info) :
         hs' = [hs EXCEPT ![p].pc = IF b THEN "clear" ELSE "checknil",
                          ![p].stored = IF track THEN CertTime[hs[p].domain]
                                        ELSE @]
    /\ UNCHANGED <<fileTime, fileVer, rolledBack, CertTime, CertConfig, loads, hist, httpVars, funVars>>

\* an invalidation that clears the cached config of every domain
ClearEvery(p) ==
    /\ hs[p].pc = "clear"
    /\ CertConfig' = [d \in Domains |-> NilConfig]
    /\ hs' = [hs EXCEPT ![p].pc = "settime"]
    /\ UNCHANGED <<fileTime, fileVer, rolledBack, CertTime, loads, hist, httpVars, funVars>>

\* 139: domconf.CertConfig = nil
Clear(p) ==
    /\ hs[p].pc = "clear"
    /\ CertConfig' = [CertConfig EXCEPT ![hs[p].domain] = NilConfig]
    /\ hs' = [hs EXCEPT ![p].pc = "settime"]
    /\ UNCHANGED <<fileTime, fileVer, rolledBack, CertTime, loads, hist, httpVars, funVars>>

\* 140: domconf.CertTime = info.ModTime(), the first word stored
SetTimeFirst(p) ==
    /\ hs[p].pc = "settime"
    /\ hs[p].half = 0
    /\ \E w \in {1, 2} :
         /\ CertTime' = [CertTime EXCEPT ![hs[p].domain][w] = hs[p].info]
         /\ hs' = [hs EXCEPT ![p].half = w]
    /\ UNCHANGED <<fileTime, fileVer, rolledBack, CertConfig, loads, hist, httpVars, funVars>>

\* 140: the other word stored
SetTimeSecond(p) ==
    /\ hs[p].pc = "settime"
    /\ hs[p].half # 0
    /\ CertTime' = [CertTime EXCEPT ![hs[p].domain][3 - hs[p].half] = hs[p].info]
    /\ hs' = [hs EXCEPT ![p].pc = "checknil", ![p].half = 0]
    /\ UNCHANGED <<fileTime, fileVer, rolledBack, CertConfig, loads, hist, httpVars, funVars>>

\* a test that loads only for a file found newer than the stored time
CheckNilWhenStale(p) ==
    /\ hs[p].pc = "checknil"
    /\ hs' = [hs EXCEPT ![p].pc =
                IF CertConfig[hs[p].domain] = NilConfig /\ hs[p].stored[1] < hs[p].info
                THEN "load" ELSE "return"]
    /\ UNCHANGED <<fileTime, fileVer, rolledBack, CertTime, CertConfig, loads, hist, httpVars, funVars>>

\* 143: domconf.CertConfig == nil
CheckNil(p) ==
    /\ hs[p].pc = "checknil"
    /\ hs' = [hs EXCEPT ![p].pc =
                IF CertConfig[hs[p].domain] = NilConfig THEN "load" ELSE "return"]
    /\ UNCHANGED <<fileTime, fileVer, rolledBack, CertTime, CertConfig, loads, hist, httpVars, funVars>>

\* 144-148: tls.LoadX509KeyPair reads the files as they are now
Load(p) ==
    /\ hs[p].pc = "load"
    /\ \/ hs' = [hs EXCEPT ![p] = ReturnFrom([@ EXCEPT !.nload = @ + 1], NilConfig, "loading key pair")]
       \/ /\ Built < MaxLoads
          /\ hs' = [hs EXCEPT ![p].pc = "store", ![p].nload = @ + 1,
                              ![p].cert = fileVer[hs[p].domain]]
    /\ UNCHANGED <<fileTime, fileVer, rolledBack, CertTime, CertConfig, loads, hist, httpVars, funVars>>

\* 150-154: config := &tls.Config{...}; domconf.CertConfig = config
Store(p) ==
    /\ hs[p].pc = "store"
    /\ loads' = loads + 1
    /\ CertConfig' = [CertConfig EXCEPT ![hs[p].domain] = NewConfig(loads + 1, hs[p].cert)]
    /\ hs' = [hs EXCEPT ![p].pc = "return", ![p].cert = 0]
    /\ UNCHANGED <<fileTime, fileVer, rolledBack, CertTime, hist, httpVars, funVars>>

\* 157: return domconf.CertConfig, nil
Return(p) ==
    /\ hs[p].pc = "return"
    /\ hs' = [hs EXCEPT ![p] = ReturnFrom(@, CertConfig[hs[p].domain], NoErr)]
    /\ UNCHANGED <<fileTime, fileVer, rolledBack, CertTime, CertConfig, loads, hist, httpVars, funVars>>


(***************************************************************************)
(* ServeHTTP, mediator.go:47-78, with handoff, createReverseProxy and      *)
(* serveFile.  A response is the status written (0: none), the number of   *)
(* WriteHeader calls and the body.                                         *)
(***************************************************************************)
GenericBody == "An error was encountered while processing your request."
NotFoundBody == "The requested file does not exist"
NotOpenedBody == "The requested file could not be opened"
BadGatewayBody == "SOMETHING ERROR HAPPEN"

\* a goroutine not in ServeHTTP.  urlPath is r.URL.Path and path the local
\* of serveFile; parsed is the subdomain parseRequest gave, subdomain the
\* one passed to handoff and serveFile; by is the proxy object that served,
\* statted the path of the last os.Stat, dir the path found a directory.
\* size is fileInfo.Size() and disk the byte size of what is at path on
\* disk now; length is the Content-Length header (0: not set), copied the
\* byte size of the file io.Copy read and sent the bytes of it written;
\* signal is what the last call of serveFile returned, lookups the number
\* of lookups in ServerConfig.Domains, parses the number of calls of
\* url.Parse, errlog that the ErrorHandler has logged
IdleRequest ==
    [pc |-> "idle", Host |-> <<EmptyName>>, orig |-> Root, urlPath |-> Root,
     err |-> NoErr, domain |-> EmptyName, domconfig |-> EmptyName,
     parsed |-> EmptyName,
     subdomain |-> EmptyName, status |-> 0, nwrite |-> 0, body |-> "",
     handoffs |-> 0, handled |-> FALSE, serves |-> 0, retries |-> 0,
     rewrites |-> 0, by |-> 0, upstream |-> "none", path |-> EmptyPath,
     statted |-> <<>>, info |-> "none", dir |-> <<>>, opened |-> <<>>,
     size |-> 0, disk |-> 0, length |-> 0, copied |-> 0, sent |-> 0,
     signal |-> FALSE, lookups |-> 0, parses |-> 0, errlog |-> FALSE]

\* w.WriteHeader(status); w.Write(body)
Respond(r, status, body) ==
    [r EXCEPT !.status = status, !.nwrite = @ + 1, !.body = body]

\* ServeHTTP returns
Finish(r) == [r EXCEPT !.pc = "done"]

\* the BackendConfig a request in handoff has looked up
Backend(r) == <<r.domconfig, r.subdomain>>

\* an empty subdomain left as it is
NoSubstitute(subdomain, default) == subdomain

\* mediator.go:66-68
Substitute(subdomain, default) ==
    IF subdomain = EmptyName THEN default ELSE subdomain

\* a domain taken to have no backend at all
NoBackend(domconfig, subdomain) == FALSE

\* mediator.go:165: _, ok := domconfig.Backends[subdomain]
HasBackend(domconfig, subdomain) ==
    subdomain \in DOMAIN DomainConfig[domconfig].Backends

\* 49-72 and 165: parseRequest, the lookup of the domain, the default
\* subdomain, and handoff up to its lookup of the backend
Request(q, hosts, paths) ==
    /\ rq[q].pc = "idle"
    /\ \E host \in hosts, path \in paths :
         LET parse == parseRequest(host)
             r == [IdleRequest EXCEPT !.Host = host, !.orig = path,
                                      !.urlPath = path, !.err = parse.err,
                                      !.domain = parse.domain,
                                      !.parsed = parse.subdomain,
                                      !.lookups = IF parse.err # NoErr THEN 0 ELSE 1]
             domconfig == DomainFor(parse.domain)
         IN  rq' = [rq EXCEPT ![q] =
               IF parse.err # NoErr \/ ~domconfig.ok
               THEN Finish(Respond(r, 500, GenericBody))
               ELSE LET subdomain ==
                          Substitute(parse.subdomain, DomainConfig[domconfig.key].Default)
                    IN  [r EXCEPT !.domconfig = domconfig.key,
                                  !.subdomain = subdomain, !.handoffs = 1,
                                  !.pc = IF HasBackend(domconfig.key, subdomain)
                                         THEN "proxycheck" ELSE "serve"]]
    /\ UNCHANGED <<tlsVars, BackendURL, ReverseProxy, heap, funVars>>

\* the goroutine is done with the request, and free for the next
Close(q) ==
    /\ rq[q].pc = "done"
    /\ rq' = [rq EXCEPT ![q] = IdleRequest]
    /\ UNCHANGED <<tlsVars, BackendURL, ReverseProxy, heap, funVars>>

\* the objects the requests now in createReverseProxy are yet to store
Reserved(q) ==
    IF rq[q].pc = "urlstore" THEN 2 ELSE IF rq[q].pc = "proxystore" THEN 1 ELSE 0

Allocated == heap + Reserved(1) + Reserved(2)

\* 169: backend.ReverseProxy == nil
ProxyCheck(q) ==
    /\ rq[q].pc = "proxycheck"
    /\ rq' = [rq EXCEPT ![q].pc =
                IF ReverseProxy[Backend(rq[q])] = 0 THEN "urlcheck" ELSE "proxyserve"]
    /\ UNCHANGED <<tlsVars, BackendURL, ReverseProxy, heap, funVars>>

\* 93-97 and 171-175: backend.URL == nil, url.Parse(backend.Target); a
\* target that does not parse ends the request with 500, handoff returning
\* true
UrlCheck(q) ==
    /\ rq[q].pc = "urlcheck"
    /\ LET k == Backend(rq[q])
           parse == UrlParse(Target(k))
       IN  IF BackendURL[k] # 0
           THEN /\ Allocated + 1 <= MaxObjects
                /\ rq' = [rq EXCEPT ![q].pc = "proxystore"]
           ELSE IF parse.err # NoErr
           THEN rq' = [rq EXCEPT ![q] =
                         Finish([Respond(@, 500, GenericBody) EXCEPT !.handled = TRUE,
                                                                     !.parses = @ + 1])]
           ELSE /\ Allocated + 2 <= MaxObjects
                /\ rq' = [rq EXCEPT ![q].pc = "urlstore", ![q].parses = @ + 1]
    /\ UNCHANGED <<tlsVars, BackendURL, ReverseProxy, heap, funVars>>

\* 98: backend.URL = url
UrlStore(q) ==
    /\ rq[q].pc = "urlstore"
    /\ heap' = heap + 1
    /\ BackendURL' = [BackendURL EXCEPT ![Backend(rq[q])] = heap + 1]
    /\ rq' = [rq EXCEPT ![q].pc = "proxystore"]
    /\ UNCHANGED <<tlsVars, ReverseProxy, funVars>>

\* 101-115 and 177: backend.ReverseProxy = proxy
ProxyStore(q) ==
    /\ rq[q].pc = "proxystore"
    /\ heap' = heap + 1
    /\ ReverseProxy' = [ReverseProxy EXCEPT ![Backend(rq[q])] = heap + 1]
    /\ rq' = [rq EXCEPT ![q].pc = "proxyserve"]
    /\ UNCHANGED <<tlsVars, BackendURL, funVars>>

\* what the upstream does with a proxied request
Upstreams == { "answered", "failed", "canceled" }

\* an error handler that answers every error alike
ErrorHandlerAlways(r, err) ==
    [Respond(r, 502, BadGatewayBody) EXCEPT !.errlog = TRUE]

\* 106-113: the ErrorHandler of the proxy, err the upstream's error
ErrorHandler(r, err) ==
    IF err = "canceled" THEN r
    ELSE [Respond(r, 502, BadGatewayBody) EXCEPT !.errlog = TRUE]

\* 180: backend.ReverseProxy.ServeHTTP(w, r), which calls the ErrorHandler
\* on an upstream error; handoff returns true
ProxyServe(q) ==
    /\ rq[q].pc = "proxyserve"
    /\ \E up \in Upstreams :
         LET r == [rq[q] EXCEPT !.by = ReverseProxy[Backend(rq[q])],
                                !.upstream = up, !.handled = TRUE]
         IN  rq' = [rq EXCEPT ![q] = Finish(
               IF up = "answered" THEN Respond(r, 200, "upstream")
               ELSE ErrorHandler(r, up))]
    /\ UNCHANGED <<tlsVars, BackendURL, ReverseProxy, heap, funVars>>

\* what os.Stat can find at a path
StatResults == { "notexist", "ioerror", "file", "dir" }

\* the byte sizes of the files and directories on disk
FileSizes == { 1, 2 }

\* os.Stat has found an entry of some size at r.path
Found(r, size) == [r EXCEPT !.size = size, !.disk = size]

Min(a, b) == IF a < b THEN a ELSE b

\* 185-190: the file a request path names
FilePath(domconfig, subdomain, urlPath) ==
    Clean(Join(domconfig.BasePath, <<subdomain>>, domconfig.Subdir, WithIndex(urlPath)))

\* index fallback that retries whatever the request path ends in
FallbackAlways(domconfig, info, urlPath) ==
    info = "notexist" /\ domconfig.IndexFallback

\* index fallback that retries after a stat failure of any kind
FallbackAnyFailure(domconfig, info, urlPath) ==
    /\ info \in {"notexist", "ioerror"}
    /\ domconfig.IndexFallback /\ ~EndsInSlashIndex(urlPath)

\* 194-196: the stat failure that index fallback answers with a retry
Fallback(domconfig, info, urlPath) ==
    info = "notexist" /\ domconfig.IndexFallback /\ ~EndsInSlashIndex(urlPath)

\* a retry of the request path as it is
RewriteSame(urlPath) == urlPath

\* 202: r.URL.Path = filepath.Dir(r.URL.Path) + "/index.html"
Rewrite(urlPath) == SlashIndex(Dir(urlPath))

\* 74-77: serveFile has returned retry.  ServeHTTP calls it again after
\* the first call said true, and returns otherwise
AfterServeFile(r, retry) ==
    IF retry /\ r.serves = 1
    THEN [r EXCEPT !.pc = "serve", !.retries = @ + 1, !.signal = retry]
    ELSE Finish([r EXCEPT !.signal = retry])

\* 185-214: serveFile up to its first os.Stat and the failure of it
ServeFileStat(q) ==
    /\ rq[q].pc = "serve"
    /\ \E info \in StatResults, size \in FileSizes :
         LET domconfig == DomainConfig[rq[q].domconfig]
             path == FilePath(domconfig, rq[q].subdomain, rq[q].urlPath)
             r == [rq[q] EXCEPT !.serves = @ + 1, !.path = path,
                                !.statted = path, !.info = info]
         IN  rq' = [rq EXCEPT ![q] =
               IF Fallback(domconfig, info, r.urlPath)
               THEN AfterServeFile([r EXCEPT !.urlPath = Rewrite(@),
                                             !.rewrites = @ + 1], TRUE)
               ELSE IF info \in {"notexist", "ioerror"}
               THEN AfterServeFile(Respond(r, 404, NotFoundBody), FALSE)
               ELSE IF info = "dir"
               THEN [Found(r, size) EXCEPT !.pc = "dirstat", !.dir = path]
               ELSE [Found(r, size) EXCEPT !.pc = "open"]]
    /\ UNCHANGED <<tlsVars, BackendURL, ReverseProxy, heap, funVars>>

\* 216-229: the path is a directory: path += "/index.html", os.Stat again
ServeFileDirStat(q) ==
    /\ rq[q].pc = "dirstat"
    /\ \E info \in StatResults, size \in FileSizes :
         LET path == SlashIndex(rq[q].path)
             r == [rq[q] EXCEPT !.path = path, !.statted = path, !.info = info]
         IN  rq' = [rq EXCEPT ![q] =
               IF info \in {"notexist", "ioerror"}
               THEN AfterServeFile(Respond(r, 404, NotFoundBody), FALSE)
               ELSE [Found(r, size) EXCEPT !.pc = "open"]]
    /\ UNCHANGED <<tlsVars, BackendURL, ReverseProxy, heap, funVars>>

\* between the os.Stat and the os.Open of a request, the file at its path
\* is replaced by one of another size
FileReplace(q) ==
    /\ rq[q].pc = "open"
    /\ \E size \in FileSizes \ {rq[q].disk} : rq' = [rq EXCEPT ![q].disk = size]
    /\ UNCHANGED <<tlsVars, BackendURL, ReverseProxy, heap, funVars>>

\* 245: Content-Length from the fileInfo of the last os.Stat; 253: io.Copy
\* reads the file as it is now, the ResponseWriter taking no more bytes
\* than Content-Length declared
Stream(r) ==
    [r EXCEPT !.length = r.size, !.copied = r.disk, !.sent = Min(r.size, r.disk)]

\* 231-260: os.Open(path), the headers and io.Copy.  Status 200 goes out
\* with the first Write of io.Copy (and when ServeHTTP returns, for a
\* copy that wrote nothing)
ServeFileOpen(q) ==
    /\ rq[q].pc = "open"
    /\ \E opens \in BOOLEAN :
         LET r == [rq[q] EXCEPT !.opened = IF opens THEN rq[q].path ELSE <<>>]
         IN  rq' = [rq EXCEPT ![q] =
               IF opens THEN AfterServeFile(Respond(Stream(r), 200, "file"), FALSE)
               ELSE AfterServeFile(Respond(r, 404, NotOpenedBody), FALSE)]
    /\ UNCHANGED <<tlsVars, BackendURL, ReverseProxy, heap, funVars>>

\* the steps of a request in flight
Serve(q) ==
    \/ ProxyCheck(q) \/ UrlCheck(q) \/ UrlStore(q) \/ ProxyStore(q) \/ ProxyServe(q)
    \/ ServeFileStat(q) \/ ServeFileDirStat(q) \/ FileReplace(q)
    \/ ServeFileOpen(q) \/ Close(q)

\* the result of parseRequest not yet computed
NotApplied == [err |-> "not applied", domain |-> EmptyName, subdomain |-> EmptyName]

\* parseRequest applied to the host drawn
ApplyParse ==
    /\ res = NotApplied
    /\ res' = parseRequest(arg)
    /\ UNCHANGED <<tlsVars, httpVars, arg>>

(***************************************************************************)
(* Initial state: the configuration just loaded, every cache field unset.  *)
(***************************************************************************)
Handshakers == 1..2
Requesters == 1..2

InitTLS ==
    /\ fileTime = [d \in Domains |-> 1]
    /\ fileVer = [d \in Domains |-> 1]
    /\ rolledBack = [d \in Domains |-> FALSE]
    /\ CertTime = [d \in Domains |-> Instant(0)]
    /\ CertConfig = [d \in Domains |-> NilConfig]
    /\ loads = 0
    /\ hs = [p \in Handshakers |-> IdleHandshake]
    /\ hist = [d \in Domains |-> [info |-> 0, cfg |-> NilConfig, err |-> NoErr]]

InitHTTP ==
    /\ BackendURL = [k \in BackendKeys |-> 0]
    /\ ReverseProxy = [k \in BackendKeys |-> 0]
    /\ heap = 0
    /\ rq = [q \in Requesters |-> IdleRequest]

InitFun == arg = <<EmptyName>> /\ res = NotApplied

Init == InitTLS /\ InitHTTP /\ InitFun

\* the server names of the handshakes
RacingNames == { Example, <<"www", "example", "com">> }
AllNames == { EmptyName, <<"com">>, <<"unknown", "org">>, Example, <<"www", "example", "com">>, Other }

Handshake(p, track) ==
    \/ Stat(p) \/ Check(p, track) \/ Clear(p) \/ SetTimeFirst(p) \/ SetTimeSecond(p)
    \/ CheckNil(p) \/ Load(p) \/ Store(p) \/ Return(p)

\* concurrent handshakes for one domain, the files replaced meanwhile
NextTLS ==
    \/ \E p \in Handshakers : Hello(p, RacingNames, FALSE) \/ Handshake(p, FALSE)
    \/ CertRenew(Example) \/ CertBackdate(Example)

SpecTLS == Init /\ [][NextTLS]_vars

\* handshakes one after another, for every server name, the files of one
\* domain replaced meanwhile
NextSeq ==
    \/ \E p \in {1} : Hello(p, AllNames, TRUE) \/ Handshake(p, TRUE)
    \/ CertRenew(Example) \/ CertBackdate(Example)

SpecSeq == Init /\ [][NextSeq]_vars

\* the segments of the request paths, and the paths: a slash and up to
\* MaxSegs segments
Segments == { <<"a">>, IndexHtml, DotDot, EmptyName }
RequestPaths ==
    { <<EmptyName>> \o segs : segs \in UNION { [1..n -> Segments] : n \in 1..MaxSegs } }

\* the Host headers of the requests
FileHosts ==
    { <<Example>>, << <<"www", "example", "com">> >>,
      << <<"foo", "example", "com">>, <<"8443">> >>,
      << <<"api", "example", "com">> >>, << <<"bad", "example", "com">> >>,
      <<Other>>, << <<"static", "other", "net">> >>,
      << <<"unknown", "org">> >>, << <<"com">> >>, << <<"example", "com", "">> >> }
ServeHosts ==
    { <<Example>>, << <<"api", "example", "com">> >>, << <<"unknown", "org">> >> }
ProxyHosts ==
    { << <<"api", "example", "com">> >>, << <<"bad", "example", "com">> >>,
      <<Other>>, <<Example>> }

\* requests one after another, for every host and path
NextFile == \E q \in {1} : Request(q, FileHosts, RequestPaths) \/ Serve(q)

SpecFile == Init /\ [][NextFile]_vars

\* concurrent requests, to the backends and to files
NextHTTP == \E q \in Requesters : Request(q, ProxyHosts, {Root}) \/ Serve(q)

SpecHTTP == Init /\ [][NextHTTP]_vars

\* a connection's handshake beside a request, for every name
NextServe ==
    \/ \E p \in {1} : Hello(p, AllNames, TRUE) \/ Handshake(p, TRUE)
    \/ \E q \in {1} : Request(q, ServeHosts, {Root}) \/ Serve(q)

SpecServe == Init /\ [][NextServe]_vars

\* the hosts parseRequest is applied to: one to three labels, with no
\* port, with a port, and with a second colon
Labels == { "foo", "example", "com", "co", "uk", "" }
ParseNames == UNION { [1..n -> Labels] : n \in 1..3 }
ParseHosts ==
    { <<name>> : name \in ParseNames }
        \cup { <<name, <<"8443">>>> : name \in ParseNames }
        \cup { <<name, <<"8443">>, EmptyName>> : name \in ParseNames }

InitParse == InitTLS /\ InitHTTP /\ arg \in ParseHosts /\ res = NotApplied

SpecParse == InitParse /\ [][ApplyParse]_vars

(***************************************************************************)
(* The claims on the certificate cache.                                    *)
(***************************************************************************)
\* a tls.Config as mediator.go:150-153 builds it
FullyBuilt(c) ==
    c.id # 0 /\ Len(c.Certificates) = 1 /\ c.NextProtos = <<"h2", "http/1.1">>

\* C1: handshakes for one domain run one after another, the file's
\* modification time never set back.  A handshake that stats the same
\* modification time as the handshake before it, which returned a config,
\* returns that same object and loads nothing; a handshake that stats a
\* later modification time than the last one seen loads exactly once, and
\* what it returns is a new object, the one now cached (which the first
\* part then keeps returning).
C1_CacheReuseAndSingleReload ==
    \A d \in Domains :
        LET h == hs[1]
            prev == hist[d]
        IN  (h.pc = "done" /\ h.domain = d /\ h.info # 0 /\ prev.info # 0 /\ ~rolledBack[d]) =>
              /\ (h.info = prev.info /\ prev.cfg # NilConfig) =>
                    (h.err = NoErr /\ h.cfg = prev.cfg /\ h.nload = 0)
              /\ (h.info > prev.info) =>
                    /\ h.nload = 1
                    /\ h.err = NoErr =>
                         (FullyBuilt(h.cfg) /\ h.cfg.id # prev.cfg.id /\ h.cfg = CertConfig[d])

\* C1's case: a reload has happened, and the handshake after it got the
\* reloaded object again without loading
C1_Witness ==
    /\ hs[1].pc = "done" /\ hs[1].domain = Example /\ ~rolledBack[Example]
    /\ hs[1].info = hist[Example].info /\ hs[1].nload = 0
    /\ hs[1].cfg = hist[Example].cfg /\ hs[1].cfg.id = 2
    /\ hs[1].cfg.Certificates = <<2>>

\* C2: every call of getConfigForClient returns a fully built config and
\* no error, or no config and an error
C2_ConfigOrError ==
    \A p \in Handshakers :
        hs[p].pc = "done" =>
            \/ hs[p].err = NoErr /\ FullyBuilt(hs[p].cfg)
            \/ hs[p].err # NoErr /\ hs[p].cfg = NilConfig

\* no handshake is in flight
Quiescent == \A p \in Handshakers : hs[p].pc \in {"idle", "done"}

\* C3: with no handshake in flight, and the file's modification time never
\* set back, a cached config beside a stored timestamp equal to the file's
\* modification time was loaded from the file's present contents
C3_CachedIsCurrent ==
    \A d \in Domains :
        (/\ Quiescent
         /\ ~rolledBack[d]
         /\ CertTime[d] = Instant(fileTime[d])
         /\ CertConfig[d] # NilConfig) =>
            CertConfig[d].Certificates = <<fileVer[d]>>

(***************************************************************************)
(* The claims on request dispatch.                                         *)
(***************************************************************************)
\* C4: a request whose host resolves to a registrable domain that is not
\* configured gets status 500, written once, and reaches neither handoff
\* nor serveFile nor a proxy; a handshake whose server name resolves to
\* such a domain, or does not resolve at all, returns an error and no
\* config, having neither statted nor loaded any domain's certificate
C4_UnknownDomainFailsClosed ==
    /\ \A q \in Requesters :
         LET r == rq[q]
             etld == EffectiveTLDPlusOne(HostName(r.Host))
         IN  (r.pc # "idle" /\ etld.err = NoErr /\ etld.domain \notin Domains) =>
               /\ r.pc = "done" /\ r.status = 500 /\ r.nwrite = 1
               /\ r.handoffs = 0 /\ r.serves = 0 /\ r.by = 0
               /\ r.statted = <<>> /\ r.opened = <<>>
    /\ \A p \in Handshakers :
         LET h == hs[p]
             etld == EffectiveTLDPlusOne(h.sni)
         IN  (h.pc # "idle" /\ h.sni # EmptyName
                /\ (etld.err # NoErr \/ etld.domain \notin Domains)) =>
               /\ h.pc = "done" /\ h.err # NoErr /\ h.cfg = NilConfig
               /\ h.info = 0 /\ h.nload = 0

\* C4's case: a request for unknown.org has been refused while another
\* domain's certificate is cached, and so has a handshake for "com"
C4_Witness ==
    /\ rq[1].pc = "done" /\ rq[1].Host = << <<"unknown", "org">> >>
    /\ rq[1].status = 500
    /\ hs[1].pc = "done" /\ hs[1].sni = <<"com">> /\ hs[1].err = "no such domain"
    /\ CertConfig[Example] # NilConfig

\* C5: a request whose subdomain, the default put in for an empty one, is
\* a key of its domain's Backends never enters serveFile, and ends in
\* handoff having returned true
C5_BackendNeverServesFile ==
    \A q \in Requesters :
        LET r == rq[q]
        IN  (r.handoffs = 1 /\ r.subdomain \in DOMAIN DomainConfig[r.domconfig].Backends) =>
              /\ r.serves = 0 /\ r.statted = <<>> /\ r.opened = <<>>
              /\ r.pc \notin {"serve", "dirstat", "open"}
              /\ r.pc = "done" => r.handled

\* C5's case: one request ended by a target that does not parse, another
\* by a failing upstream, neither having entered serveFile
C5_Witness ==
    /\ rq[1].pc = "done" /\ rq[1].subdomain = <<"bad">> /\ rq[1].status = 500
    /\ rq[2].pc = "done" /\ rq[2].Host = <<Other>> /\ rq[2].subdomain = <<"app">>
    /\ rq[2].upstream = "failed" /\ rq[2].status = 502
    /\ rq[1].serves = 0 /\ rq[2].serves = 0

\* C6, in every state: serveFile has been entered at most twice and the
\* path rewritten at most once, a rewritten path ends in /index.html, and
\* after the second call nothing calls serveFile again
C6_Bounded ==
    \A q \in Requesters :
        LET r == rq[q]
        IN  /\ r.serves <= 2 /\ r.rewrites <= 1 /\ r.retries <= 1
            /\ r.rewrites = 1 => EndsInSlashIndex(r.urlPath)
            /\ r.serves = 2 => r.pc # "serve"

\* C6, in every step: a call of serveFile with a path ending in
\* /index.html whose file does not exist ends the request with 404 and
\* leaves the path as it is
C6_NoRewriteOfIndex ==
    \A q \in Requesters :
        (/\ rq[q].pc = "serve" /\ EndsInSlashIndex(rq[q].urlPath)
         /\ rq'[q].serves = rq[q].serves + 1 /\ rq'[q].info = "notexist") =>
            /\ rq'[q].pc = "done" /\ rq'[q].status = 404 /\ rq'[q].nwrite = 1
            /\ rq'[q].urlPath = rq[q].urlPath /\ rq'[q].rewrites = rq[q].rewrites

\* C6: serveFile is called at most twice for a request and the path
\* rewritten at most once; a path ending in /index.html whose file does
\* not exist gets 404 and no rewrite; a second call is the last
C6_AtMostOneRetry == [](C6_Bounded) /\ [][C6_NoRewriteOfIndex]_vars

\* C6's case: /a did not exist, the path was rewritten to /index.html,
\* that did not exist either, and the second call answered 404
C6_Witness ==
    /\ rq[1].pc = "done" /\ rq[1].orig = <<EmptyName, <<"a">>>>
    /\ rq[1].urlPath = <<EmptyName, EmptyName, IndexHtml>>
    /\ rq[1].serves = 2 /\ rq[1].rewrites = 1 /\ rq[1].info = "notexist"
    /\ rq[1].status = 404

\* C7: under any interleaving of the requests to a backend, a proxy object
\* once stored on the backend is never replaced by another
C7_HandleNeverReplaced ==
    [][\A k \in BackendKeys :
          ReverseProxy[k] # 0 => ReverseProxy'[k] = ReverseProxy[k]]_vars

\* the file a request names, as the README has it: the base path, the
\* subdomain, the subdirectory and the request path, joined
Named(r, subdomain, urlPath) ==
    Join(DomainConfig[r.domconfig].BasePath, <<subdomain>>,
         DomainConfig[r.domconfig].Subdir, WithIndex(urlPath))

\* C8: the subdomain a request is dispatched on is the one parseRequest
\* gave, or the domain's Default when that is empty: the request goes to
\* the proxy exactly when that subdomain is a backend, and the file
\* serveFile looks for lies under that subdomain
C8_DefaultSubdomain ==
    \A q \in Requesters :
        LET r == rq[q]
            host == HostName(r.Host)
            given == IF Len(host) = Len(r.domain) THEN EmptyName
                     ELSE SubSeq(host, 1, Len(host) - Len(r.domain))
            used == IF given = EmptyName THEN DomainConfig[r.domconfig].Default
                    ELSE given
            proxied == r.pc \in {"proxycheck", "urlcheck", "urlstore",
                                  "proxystore", "proxyserve"} \/ r.handled
        IN  r.handoffs = 1 =>
              /\ r.subdomain = used
              /\ proxied <=> used \in DOMAIN DomainConfig[r.domconfig].Backends
              /\ r.serves >= 1 =>
                    r.path \in { Named(r, used, r.orig), SlashIndex(Named(r, used, r.orig)),
                                  Named(r, used, r.urlPath),
                                  SlashIndex(Named(r, used, r.urlPath)) }

\* C8's case: a request to example.com for /a was served the file of www
C8_Witness ==
    /\ rq[1].pc = "done" /\ rq[1].Host = <<Example>> /\ rq[1].parsed = EmptyName
    /\ rq[1].status = 200
    /\ rq[1].opened = <<EmptyName, <<"srv">>, <<"www">>, <<"public_html">>, <<"a">>>>

\* a registrable domain: a public suffix and one label more, none empty
IsRegistrable(name) ==
    ~HasEmptyLabel(name) /\ name # EmptyName /\ Len(name) = PublicSuffixLen(name) + 1

\* a name with a registrable domain at its end
HasRegistrable(name) ==
    ~HasEmptyLabel(name) /\ \E n \in 1..Len(name) : IsRegistrable(Last(name, n))

\* C9: parseRequest looks at the host up to its first colon.  For a host
\* sub.domain, domain registrable, it returns domain and sub; for a host
\* that is a registrable domain it returns it and the empty subdomain;
\* for a host with no registrable domain it returns an error
C9_ParseRequest ==
    res # NotApplied =>
        LET host == arg[1]
        IN  /\ \A n \in 1..Len(host) :
                  (~HasEmptyLabel(host) /\ IsRegistrable(Last(host, n))) =>
                      /\ res.err = NoErr
                      /\ res.domain = Last(host, n)
                      /\ res.subdomain = IF n = Len(host) THEN EmptyName
                                          ELSE SubSeq(host, 1, Len(host) - n)
            /\ ~HasRegistrable(host) => res.err # NoErr

\* C9's case: foo.example.com:8443 gave example.com and foo
C9_Witness ==
    /\ arg = << <<"foo", "example", "com">>, <<"8443">> >>
    /\ res = [err |-> NoErr, domain |-> Example, subdomain |-> <<"foo">>]

\* the entry called name in the directory dir
Under(dir, name) == IF dir = Root THEN <<EmptyName, name>> ELSE dir \o <<name>>

\* the index.html of the directory a request path ending in a slash
\* names: that of the path as it came and, once index fallback has
\* rewritten the path, that of the directory the rewrite kept
IndexOf(r) ==
    LET domconfig == DomainConfig[r.domconfig]
        dirOf(urlPath) ==
            Join(domconfig.BasePath, <<r.subdomain>>, domconfig.Subdir, urlPath)
    IN  { Under(dirOf(Front(r.orig)), IndexHtml) } \cup
        (IF r.rewrites = 0 THEN {} ELSE { Under(dirOf(Dir(r.orig)), IndexHtml) })

\* C10 as stated: for a request path ending in a slash, every path
\* serveFile stats or opens is the directory's index.html, index.html
\* coming once after the directory, whatever os.Stat finds there
C10_IndexAppendedOnce ==
    \A q \in Requesters :
        LET r == rq[q]
        IN  (r.serves >= 1 /\ EndsInSlash(r.orig)) =>
              /\ r.statted \in IndexOf(r)
              /\ r.opened # <<>> => r.opened \in IndexOf(r)

\* C10: for a request path ending in a slash, the path serveFile stats
\* and opens is the directory's index.html, index.html coming once after
\* the directory, unless os.Stat found that index.html to be a directory:
\* then, and only then, /index.html comes a second time
C10_IndexAppendedOnceUnlessDir ==
    \A q \in Requesters :
        LET r == rq[q]
            twice == { SlashIndex(once) : once \in IndexOf(r) \cap {r.dir} }
        IN  (r.serves >= 1 /\ EndsInSlash(r.orig)) =>
              /\ r.statted \in IndexOf(r) \cup twice
              /\ r.statted \in twice <=> (r.dir # <<>> /\ r.pc # "dirstat")
              /\ r.opened # <<>> => r.opened = r.statted

\* C10's case: /a/index.html did not exist, index fallback rewrote the
\* path, and the second call found and served /a/index.html
C10_Witness ==
    /\ rq[1].pc = "done" /\ rq[1].orig = <<EmptyName, <<"a">>, EmptyName>>
    /\ rq[1].rewrites = 1 /\ rq[1].serves = 2 /\ rq[1].status = 200
    /\ rq[1].opened =
         <<EmptyName, <<"srv">>, <<"www">>, <<"public_html">>, <<"a">>, IndexHtml>>

(***************************************************************************)
(* The claims on the responses and the failures.                           *)
(***************************************************************************)
\* C11: a request served a file has the byte size of the file that was
\* opened and copied as its Content-Length, and all of that file's bytes
\* as its body
C11_ContentLengthIsFileSize ==
    \A q \in Requesters :
        LET r == rq[q]
        IN  (r.opened # <<>> /\ r.status = 200) =>
              (r.length = r.copied /\ r.sent = r.copied)

\* C12 as stated: a handshake that returns a config, having found the
\* file's modification time different from the stored timestamp, later or
\* earlier, has loaded the certificate anew, and returns the new config
C12_ReloadOnAnyChange ==
    \A d \in Domains :
        LET h == hs[1]
        IN  (h.pc = "done" /\ h.domain = d /\ h.err = NoErr
               /\ h.stored # Instant(h.info)) =>
              (h.nload = 1 /\ FullyBuilt(h.cfg) /\ h.cfg = CertConfig[d])

\* C12: a handshake that returns a config, having found the file's
\* modification time later than the stored timestamp, has loaded the
\* certificate anew, and returns the new config, the stored timestamp
\* now the file's; a modification time earlier than the stored timestamp
\* invalidates nothing
C12_ReloadWhenLater ==
    \A d \in Domains :
        LET h == hs[1]
        IN  (h.pc = "done" /\ h.domain = d /\ h.err = NoErr) =>
              /\ h.stored[1] < h.info =>
                    /\ h.nload = 1 /\ FullyBuilt(h.cfg) /\ h.cfg = CertConfig[d]
                    /\ h.cfg.id = loads /\ CertTime[d] = Instant(h.info)
              /\ (h.stored[1] > h.info /\ hist[d].cfg # NilConfig) =>
                    (h.nload = 0 /\ h.cfg = hist[d].cfg /\ CertTime[d] = h.stored)

\* C12's case: the file renewed after a first handshake, the second
\* handshake found the stored time 1 older than 2 and loaded contents 2
C12_Witness ==
    /\ hs[1].pc = "done" /\ hs[1].domain = Example /\ hs[1].err = NoErr
    /\ hs[1].stored = Instant(1) /\ hs[1].info = 2 /\ hs[1].nload = 1
    /\ hs[1].cfg.Certificates = <<2>> /\ hs[1].cfg.id = 2

\* a call of serveFile by request q returns in this step
ServeFileReturns(q) ==
    /\ rq[q].pc \in {"serve", "dirstat", "open"}
    /\ rq'[q].pc \in {"serve", "done"}
    /\ rq'[q] # rq[q]

\* C13, in every step in which a call of serveFile returns: it returns
\* retry exactly when its first os.Stat failed with "does not exist",
\* the domain has IndexFallback set and the request path did not end in
\* /index.html, and then it has written nothing; a call that opened no
\* file and returns no retry has written status 404, once
C13_RetryOnly ==
    \A q \in Requesters :
        ServeFileReturns(q) =>
            /\ rq'[q].signal <=>
                  /\ rq[q].pc = "serve" /\ rq'[q].info = "notexist"
                  /\ DomainConfig[rq[q].domconfig].IndexFallback
                  /\ ~EndsInSlashIndex(rq[q].urlPath)
            /\ rq'[q].signal =>
                  (rq'[q].nwrite = rq[q].nwrite /\ rq'[q].status = rq[q].status
                     /\ rq'[q].body = rq[q].body)
            /\ (~rq'[q].signal /\ rq'[q].opened = <<>>) =>
                  (rq'[q].status = 404 /\ rq'[q].nwrite = rq[q].nwrite + 1)

\* C13: serveFile signals a retry, and writes nothing, only for a stat
\* failure "does not exist" with index fallback enabled and a request
\* path not ending in /index.html; every other failure (fallback
\* disabled, another stat failure, a directory without index.html, a
\* file that does not open) is answered 404 with no retry
C13_RetryOnlyOnNotExist == [][C13_RetryOnly]_vars

\* C13's case: with index fallback enabled, /a was a directory whose
\* index.html did not exist: 404 and no retry
C13_Witness ==
    /\ rq[1].pc = "done" /\ rq[1].domconfig = Example
    /\ rq[1].orig = <<EmptyName, <<"a">>>> /\ rq[1].dir # <<>>
    /\ rq[1].info = "notexist" /\ rq[1].status = 404
    /\ ~rq[1].signal /\ rq[1].serves = 1 /\ rq[1].rewrites = 0

\* C14: handshakes for one domain run one after another.  A handshake
\* whose tls.LoadX509KeyPair failed returns an error and no config, and
\* leaves the cached config nil beside the stored timestamp it advanced;
\* the handshake after it, once past os.Stat, calls tls.LoadX509KeyPair
\* again, whatever the modification time it finds
C14_LoadFailureNotCached ==
    \A d \in Domains :
        LET h == hs[1]
        IN  /\ (h.pc = "done" /\ h.domain = d /\ h.err = "loading key pair") =>
                  /\ h.cfg = NilConfig /\ CertConfig[d] = NilConfig /\ h.nload = 1
                  /\ ~rolledBack[d] => CertTime[d] = Instant(h.info)
            /\ (h.pc = "done" /\ h.domain = d /\ h.info # 0
                   /\ hist[d].err = "loading key pair") =>
                  (h.nload = 1 /\ h.err \in {NoErr, "loading key pair"})

\* C14's case: a load failed at modification time 1, which CertTime kept;
\* the next handshake found the same time stored, loaded and returned a
\* config
C14_Witness ==
    /\ hs[1].pc = "done" /\ hs[1].domain = Example
    /\ hist[Example].err = "loading key pair" /\ hist[Example].info = 1
    /\ hs[1].info = 1 /\ hs[1].stored = Instant(1)
    /\ hs[1].nload = 1 /\ hs[1].err = NoErr /\ FullyBuilt(hs[1].cfg)

\* the step in which os.Stat on the certificate file fails for p
StatFails(p) == hs[p].pc = "stat" /\ hs'[p].pc = "done"

\* C15: a handshake whose os.Stat on the certificate file fails returns
\* the stat error and no config, cached or not, having loaded nothing, and
\* the failing step leaves every CertTime and CertConfig as they were
C15_StatFailure ==
    /\ \A p \in Handshakers :
          (hs[p].pc = "done" /\ hs[p].err = "stat certfile") =>
             (hs[p].cfg = NilConfig /\ hs[p].nload = 0 /\ hs[p].domain \in Domains)
    /\ \A p \in Handshakers :
          StatFails(p) =>
             /\ hs'[p].err = "stat certfile" /\ hs'[p].cfg = NilConfig
             /\ CertTime' = CertTime /\ CertConfig' = CertConfig

C15_StatFailureReturnsError == [][C15_StatFailure]_vars

\* C15's case: the stat failed while a config loaded at time 1 was cached
C15_Witness ==
    /\ hs[1].pc = "done" /\ hs[1].domain = Example /\ hs[1].err = "stat certfile"
    /\ FullyBuilt(CertConfig[Example]) /\ CertTime[Example] = Instant(1)
    /\ hist[Example].cfg = CertConfig[Example]

\* the step in which p's getConfigForClient is called
Called(p) == hs[p].pc \in {"idle", "done"} /\ hs'[p].pc # "idle" /\ hs'[p] # hs[p]

\* C16: a handshake with an empty hello.ServerName has returned as soon as
\* it is called, with the ServerName error and no config, before the
\* lookup in ServerConfig.Domains, os.Stat and tls.LoadX509KeyPair, and
\* the call leaves every CertTime and CertConfig as they were
C16_NoServerName ==
    \A p \in {1} :
        /\ (hs[p].pc # "idle" /\ hs[p].sni = EmptyName) =>
              /\ hs[p].pc = "done" /\ hs[p].err = "no ServerName"
              /\ hs[p].cfg = NilConfig
              /\ ~hs[p].looked /\ hs[p].info = 0 /\ hs[p].nload = 0
        /\ (Called(p) /\ hs'[p].sni = EmptyName) =>
              (CertTime' = CertTime /\ CertConfig' = CertConfig /\ loads' = loads)

C16_NoServerNameFailsFirst == [][C16_NoServerName]_vars

\* C16's case: a hello with no server name arrives while a config is
\* cached, and after a handshake that had returned it
C16_Witness ==
    /\ hs[1].pc = "done" /\ hs[1].sni = EmptyName /\ hs[1].err = "no ServerName"
    /\ FullyBuilt(CertConfig[Example]) /\ hist[Example].cfg = CertConfig[Example]

(***************************************************************************)
(* The claims on the failures of ServeHTTP.                                *)
(***************************************************************************)
\* the step in which ServeHTTP is called for q
Arrives(q) == rq[q].pc = "idle" /\ rq'[q].pc # "idle"

\* C17: a request whose Host has no registrable domain
\* (EffectiveTLDPlusOne fails on it) has returned as soon as ServeHTTP is
\* called, with one response, 500 and the generic body, without a lookup
\* in ServerConfig.Domains, a handoff or a call of serveFile, and the call
\* leaves every cache field of the backends and the domains as it was
C17_ParseFailure ==
    \A q \in Requesters :
        /\ (rq[q].pc # "idle" /\ EffectiveTLDPlusOne(HostName(rq[q].Host)).err # NoErr) =>
              /\ rq[q].pc = "done"
              /\ rq[q].status = 500 /\ rq[q].body = GenericBody /\ rq[q].nwrite = 1
              /\ rq[q].lookups = 0 /\ rq[q].domconfig = EmptyName
              /\ rq[q].handoffs = 0 /\ ~rq[q].handled /\ rq[q].by = 0
              /\ rq[q].serves = 0 /\ rq[q].statted = <<>> /\ rq[q].opened = <<>>
        /\ (Arrives(q) /\ EffectiveTLDPlusOne(HostName(rq'[q].Host)).err # NoErr) =>
              /\ BackendURL' = BackendURL /\ ReverseProxy' = ReverseProxy
              /\ CertTime' = CertTime /\ CertConfig' = CertConfig

C17_ParseFailureIs500 == [][C17_ParseFailure]_vars

\* C17's case: a Host that is a public suffix, after a backend's proxy was
\* created and cached
C17_Witness ==
    /\ rq[1].pc = "done" /\ rq[1].Host = << <<"com">> >>
    /\ rq[1].err # NoErr /\ rq[1].status = 500
    /\ ReverseProxy[<<Example, <<"api">>>>] # 0

\* the backends configured with the target that is no URL
Unparsable == { k \in BackendKeys : Target(k) = BadTarget }

\* r has looked up, in handoff, a backend whose Target does not parse
ToUnparsable(r) ==
    /\ r.pc # "idle" /\ r.domconfig \in Domains
    /\ HasBackend(r.domconfig, r.subdomain) /\ Backend(r) \in Unparsable

\* C18: a backend whose Target url.Parse rejects never has a URL or a
\* ReverseProxy stored, and every request handed to it calls url.Parse
\* (once) and ends with one response, 500 and the generic body, handoff
\* having handled it with no proxy and no file served
C18_UnparsableTarget ==
    /\ \A k \in Unparsable : BackendURL[k] = 0 /\ ReverseProxy[k] = 0
    /\ \A q \in Requesters :
          ToUnparsable(rq[q]) =>
             /\ rq[q].pc \in {"proxycheck", "urlcheck", "done"}
             /\ rq[q].pc = "done" =>
                   /\ rq[q].parses = 1
                   /\ rq[q].status = 500 /\ rq[q].body = GenericBody
                   /\ rq[q].nwrite = 1 /\ rq[q].handled
                   /\ rq[q].by = 0 /\ rq[q].serves = 0

\* C18's case: two requests to the backend with the bad target have both
\* ended, each after a parse of its own
C18_Witness ==
    \A q \in Requesters :
        /\ rq[q].pc = "done" /\ rq[q].Host = << <<"bad", "example", "com">> >>
        /\ rq[q].parses = 1 /\ rq[q].status = 500

\* C19: a proxied request whose upstream failed gets one response, 502
\* with the fixed body, and a log line of the ErrorHandler; one whose client
\* canceled gets no status, no body and no log line.  Either way handoff
\* has handled the request: ServeHTTP returns with no error of its own and
\* no call of serveFile
C19_ErrorHandler ==
    \A q \in Requesters :
        LET r == rq[q]
        IN  /\ r.upstream = "failed" =>
                  /\ r.status = 502 /\ r.body = BadGatewayBody /\ r.nwrite = 1
                  /\ r.errlog
            /\ r.upstream = "canceled" =>
                  (r.status = 0 /\ r.body = "" /\ r.nwrite = 0 /\ ~r.errlog)
            /\ r.upstream \in {"failed", "canceled"} =>
                  /\ r.pc = "done" /\ r.handled /\ r.by # 0
                  /\ r.err = NoErr /\ r.serves = 0 /\ r.retries = 0

\* C19's case: one request ended by an upstream failure, another by its
\* client's cancellation
C19_Witness ==
    /\ rq[1].pc = "done" /\ rq[1].upstream = "failed" /\ rq[1].status = 502
    /\ rq[2].pc = "done" /\ rq[2].upstream = "canceled" /\ rq[2].status = 0

\* C20: a request that handoff did not handle has no status written while
\* serveFile is at work, and exactly one when ServeHTTP returns: 500, 404
\* or 200.  After an index-fallback retry serveFile has run twice and its
\* second call, whose signal ServeHTTP ignores, asked for no retry
C20_OneStatus ==
    \A q \in Requesters :
        LET r == rq[q]
        IN  /\ r.pc \in {"serve", "dirstat", "open"} => (r.nwrite = 0 /\ r.status = 0)
            /\ (r.pc = "done" /\ ~r.handled) =>
                  /\ r.nwrite = 1 /\ r.status \in {500, 404, 200}
                  /\ ~r.signal
                  /\ r.retries = 1 => r.serves = 2
                  /\ r.status = 500 <=> r.serves = 0

\* C20's case: the retry of index fallback found no index.html either, and
\* the second call of serveFile wrote the 404
C20_Witness ==
    /\ rq[1].pc = "done" /\ ~rq[1].handled
    /\ rq[1].retries = 1 /\ rq[1].serves = 2 /\ rq[1].info = "notexist"
    /\ rq[1].nwrite = 1 /\ rq[1].status = 404 /\ rq[1].body = NotFoundBody

(***************************************************************************)
(* The claims on the paths served and on the cache fields.                 *)
(***************************************************************************)
\* the directory of a request's files: base path / subdomain / subdirectory
DocRoot(r) ==
    Join(DomainConfig[r.domconfig].BasePath, <<r.subdomain>>,
         DomainConfig[r.domconfig].Subdir, EmptyPath)

\* path is dir or lies below it
Within(dir, path) ==
    Len(dir) <= Len(path) /\ SubSeq(path, 1, Len(dir)) = dir

\* C21: every path serveFile has passed to os.Stat or os.Open lies within
\* base path / subdomain / subdirectory of the request's domain, whatever
\* "." and ".." segments the request path has
C21_PathWithinDocRoot ==
    \A q \in Requesters :
        LET r == rq[q]
        IN  /\ r.statted # <<>> => Within(DocRoot(r), r.statted)
            /\ r.opened # <<>> => Within(DocRoot(r), r.opened)

\* no word of a domain's CertTime gets smaller in the step
NotEarlier(d) == \A w \in {1, 2} : CertTime'[d][w] >= CertTime[d][w]

\* C22: in every step, of any interleaving of handshakes and replacements
\* of the certificate file, each domain's CertTime stays or moves forward
C22_TimestampMonotone == [][\A d \in Domains : NotEarlier(d)]_vars

\* the cache fields of domain d, and of backend k, are left as they were
DomainKept(d) == CertTime'[d] = CertTime[d] /\ CertConfig'[d] = CertConfig[d]
BackendKept(k) == BackendURL'[k] = BackendURL[k] /\ ReverseProxy'[k] = ReverseProxy[k]

\* the request is in handoff, past the lookup of its backend
InHandoff(r) ==
    r.pc \in {"proxycheck", "urlcheck", "urlstore", "proxystore", "proxyserve"}

\* C23: a step of a handshake leaves the cache fields of every backend and
\* of every domain but the handshake's as they were; a step of a request
\* leaves those of every domain and of every backend but the one handoff
\* has looked up for it, and those of every backend when the request is
\* not in handoff (ServeHTTP called and failed, serveFile at work,
\* ServeHTTP returned)
C23_Frame ==
    /\ \A p \in Handshakers :
          hs'[p] # hs[p] =>
             /\ \A d \in Domains \ {hs'[p].domain} : DomainKept(d)
             /\ \A k \in BackendKeys : BackendKept(k)
    /\ \A q \in Requesters :
          rq'[q] # rq[q] =>
             /\ \A d \in Domains : DomainKept(d)
             /\ \A k \in BackendKeys :
                   (~InHandoff(rq[q]) \/ k # Backend(rq[q])) => BackendKept(k)

C23_CacheWritesConfined == [][C23_Frame]_vars

\* C23's case: both domains have had their handshakes and a backend its
\* proxy, each holding what was stored for it, and a request to an unknown
\* domain has failed beside them
C23_Witness ==
    /\ FullyBuilt(CertConfig[Example]) /\ FullyBuilt(CertConfig[Other])
    /\ CertConfig[Example].id # CertConfig[Other].id
    /\ ReverseProxy[<<Example, <<"api">>>>] # 0
    /\ ReverseProxy[<<Other, <<"app">>>>] = 0
    /\ rq[1].pc = "done" /\ rq[1].Host = << <<"unknown", "org">> >> /\ rq[1].status = 500

\* a backend holding a ReverseProxy holds a URL
C24_ProxyHasUrl == \A k \in BackendKeys : ReverseProxy[k] # 0 => BackendURL[k] # 0

\* a backend's URL, once stored, is the same object after the step
C24_UrlKept == \A k \in BackendKeys : BackendURL[k] # 0 => BackendURL'[k] = BackendURL[k]

\* C24: under any interleaving of requests to a backend, a backend record
\* with a ReverseProxy has a URL, and a URL once stored is never assigned
\* again or cleared
C24_UrlSetOnce == [](C24_ProxyHasUrl) /\ [][C24_UrlKept]_vars

=============================================================================
